---- MODULE Spec2Model ----
(***************************************************************************)
(* State-machine model of ai-manager-tg-bot/crud.py: the transcript store  *)
(* (chats, messages), one database session per sync_vk invocation, the VK  *)
(* history service, the photo CDN and the MinIO bucket.                    *)
(*                                                                         *)
(* Conventions                                                             *)
(*  - a Python str is a sequence of one-character strings, so that int(),  *)
(*    str.split, os.path.splitext and truthiness are computed, not assumed *)
(*  - a Python dict is a record; a missing key is a name outside DOMAIN    *)
(*  - each action is the code between two awaits of sync_vk: the await's   *)
(*    outcome (value or exception) is the action's nondeterminism          *)
(***************************************************************************)
EXTENDS Integers, Sequences, FiniteSets, TLC

VARIABLES
    chats,      \* table "chats":    id -> Chat row
    messages,   \* table "messages": committed rows, in insertion (id) order
    nextId,     \* the messages.id sequence
    bucket,     \* MinIO bucket BUCKET_NAME: object key -> body
    remote,     \* the VK history of the peer, as vk.messages.getHistory serves it
    env,        \* os.environ: VK_TOKEN, VK_GROUP_ID, MINIO_LOGIN, MINIO_PWD
    clock,      \* what datetime.utcnow() returns; it moves on while sync_vk
                \* awaits the download of a photo
    pc,         \* per invocation: the await sync_vk is suspended on
    loc,        \* per invocation: the local variables of sync_vk
    sess,       \* per invocation: the AsyncSession's open transaction
    result,     \* per invocation: what sync_vk returned or raised
    hist,       \* per invocation: history of the call (what it found, did and hit)
    budget,     \* how many more external calls may fail
    seen,       \* what a get_messages reader in its own session last saw
    tagop,      \* the add_chat_tag or remove_chat_tag call in progress, or the last
    auth        \* the verify_token call in progress, or the last

vars == <<chats, messages, nextId, bucket, remote, env, clock, pc, loc, sess,
          result, hist, budget, seen, tagop, auth>>

----------------------------------------------------------------------------
(* Bounds of the model *)

MaxTail == 2        \* relevant-kind items at the end of the remote history
MaxPages == 1       \* full pages of service items in front of them
MaxStale == 2       \* records of the conversation before the first call
MaxFaults == 2      \* external calls that fail in one behaviour
MaxRequests == 2    \* requests verify_token is called for in one behaviour
ClockStart == 100   \* utcnow() at the first call, later than every item date

Runs == {1, 2}      \* invocations of sync_vk, each with its own session

----------------------------------------------------------------------------
(* Python values *)

Get(d, key, default) == IF key \in DOMAIN d THEN d[key] ELSE default

Truthy(s) == Len(s) > 0

Range(s) == {s[k] : k \in DOMAIN s}

Min(a, b) == IF a < b THEN a ELSE b

Digits == <<"0", "1", "2", "3", "4", "5", "6", "7", "8", "9">>

IsDigit(c) == \E d \in DOMAIN Digits : Digits[d] = c

DigitVal(c) == (CHOOSE d \in DOMAIN Digits : Digits[d] = c) - 1

RECURSIVE DigitsVal(_)
DigitsVal(s) ==
    IF s = <<>> THEN 0
    ELSE 10 * DigitsVal(SubSeq(s, 1, Len(s) - 1)) + DigitVal(s[Len(s)])

\* int(s): an optional sign and at least one digit, else ValueError
ParseInt(s) ==
    LET signed == s # <<>> /\ s[1] \in {"-", "+"}
        body == IF signed THEN Tail(s) ELSE s
    IN  IF body # <<>> /\ \A k \in DOMAIN body : IsDigit(body[k])
        THEN [ok |-> TRUE,
              val |-> IF signed /\ s[1] = "-" THEN 0 - DigitsVal(body)
                      ELSE DigitsVal(body)]
        ELSE [ok |-> FALSE, val |-> 0]

RECURSIVE NatToStr(_)
NatToStr(n) ==
    IF n < 10 THEN <<Digits[n + 1]>>
    ELSE NatToStr(n \div 10) \o <<Digits[(n % 10) + 1]>>

\* str(n)
IntToStr(n) == IF n < 0 THEN <<"-">> \o NatToStr(0 - n) ELSE NatToStr(n)

\* s.split('?')[0]
BeforeQuery(s) ==
    IF \E k \in DOMAIN s : s[k] = "?"
    THEN SubSeq(s, 1, (CHOOSE k \in DOMAIN s :
                         s[k] = "?" /\ \A m \in 1..(k - 1) : s[m] # "?") - 1)
    ELSE s

\* s.rfind(c), 1-based, 0 when absent
RFind(s, c) ==
    IF \E k \in DOMAIN s : s[k] = c
    THEN CHOOSE k \in DOMAIN s : s[k] = c /\ \A m \in (k + 1)..Len(s) : s[m] # c
    ELSE 0

\* os.path.splitext(p)[1]: from the last dot of the last path component,
\* unless that component has only dots before it
SplitExt(p) ==
    LET sep == RFind(p, "/")
        dot == RFind(p, ".")
    IN  IF dot > sep /\ \E k \in (sep + 1)..(dot - 1) : p[k] # "."
        THEN SubSeq(p, dot, Len(p))
        ELSE <<>>

----------------------------------------------------------------------------
(* Program constants *)

count == 200   \* page size of one getHistory request

BUCKET_NAME == <<"psih-photo">>

\* os.getenv("APP_HOST", "localhost")
APP_HOST == <<"localhost">>

SizeKeys == <<"photo_1280", "photo_807", "photo_604", "photo_130", "photo_75">>

----------------------------------------------------------------------------
(* The inputs: conversations, environment, remote histories *)

T_hi == <<"h", "i">>
T_yo == <<"y", "o">>
T_old == <<"o", "l", "d">>

URL_A == <<"c", "/", "a", ".", "p", "n", "g", "?", "s", "=", "1">>
URL_B == <<"c", "/", "b">>
URL_S == <<"c", "/", "s", ".", "j", "p", "g">>
URL_L == <<"c", "/", "l", ".", "j", "p", "g">>

\* photo dicts as VK sends them
PhotoFixed == [photo_604 |-> URL_A, photo_75 |-> URL_B,
               sizes |-> <<[height |-> 75, url |-> URL_B]>>]
PhotoSizes == [sizes |-> <<[height |-> 100, url |-> URL_S],
                           [height |-> 400, url |-> URL_L]>>]
PhotoSmall == [sizes |-> <<[height |-> 400, url |-> URL_S],
                           [height |-> 100, url |-> URL_L]>>]
PhotoEmpty == [sizes |-> <<>>]

PhotoAtt(photo) == [type |-> "photo", photo |-> photo]

Kinds == {"text", "both", "album", "nourl", "sticker"}

\* One remote history item of each kind; id is its position in the history
\* (two items with text and photo carry different photos of one date)
Item(kind, id) ==
    CASE kind = "text"    -> [id |-> id, from_id |-> 555, text |-> T_hi, date |-> 20]
      [] kind = "both"    -> [id |-> id, from_id |-> -100, text |-> T_yo,
                              attachments |-> <<PhotoAtt(IF id % 2 = 1 THEN PhotoSizes
                                                         ELSE PhotoSmall)>>,
                              date |-> 10]
      [] kind = "album"   -> [id |-> id,
                              attachments |-> <<PhotoAtt(PhotoFixed), PhotoAtt(PhotoSizes)>>]
      [] kind = "nourl"   -> [id |-> id, text |-> <<>>,
                              attachments |-> <<PhotoAtt(PhotoEmpty)>>, date |-> 30]
      [] kind = "sticker" -> [id |-> id, from_id |-> 555, text |-> <<>>,
                              attachments |-> <<[type |-> "sticker"]>>, date |-> 5]
      [] OTHER            -> [id |-> id, date |-> 1]

\* a history: p full pages of service items, then the items of kinds ks
History(p, ks) ==
    [k \in 1..(p * count + Len(ks)) |->
        IF k <= p * count THEN Item("service", k) ELSE Item(ks[k - p * count], k)]

Tails == UNION {[1..n -> Kinds] : n \in 0..MaxTail}

Histories == {History(p, ks) : p \in 0..MaxPages, ks \in Tails}

\* photo dicts that have, or lack, or hold an empty value for three of the
\* size keys, and have no sizes list, an empty one, or one of several shapes
PhotoUrl(key) == <<"c", "/", key>>

OneKey(key) == {[x \in {} |-> <<>>], [x \in {key} |-> <<>>], [x \in {key} |-> PhotoUrl(key)]}

SizesShapes ==
    {<<>>,
     <<[height |-> 100, url |-> URL_S], [height |-> 400, url |-> URL_L]>>,
     <<[height |-> 400, url |-> URL_L], [height |-> 400, url |-> URL_S]>>,
     <<[url |-> URL_S], [height |-> 75, url |-> URL_B]>>,
     <<[height |-> 100]>>}

OneSizes == {[x \in {} |-> <<>>]} \cup {[x \in {"sizes"} |-> sh] : sh \in SizesShapes}

Photos ==
    {a @@ b @@ c @@ z : a \in OneKey("photo_1280"), b \in OneKey("photo_604"),
                        c \in OneKey("photo_75"), z \in OneSizes}

\* histories of one dated item with a sticker and one photo
PhotoHistories ==
    {<<[id |-> 1, from_id |-> 555, date |-> 10,
        attachments |-> <<[type |-> "sticker"], PhotoAtt(photo)>>]>> : photo \in Photos}

\* the rows of table "chats"
\* 1 is a VK conversation, 2 a Telegram one, 3 a VK one whose uuid is no
\* number, 4 the id of no conversation
ChatIds == 1..4

InitialChats ==
    [c \in 1..3 |->
        [id |-> c,
         uuid |-> CASE c = 1 -> <<"4", "2">>
                    [] c = 2 -> <<"7">>
                    [] OTHER -> <<"4", "x">>,
         ai |-> TRUE, waiting |-> FALSE, tags |-> <<>>, name |-> "user",
         messager |-> IF c = 2 THEN "telegram" ELSE "vk"]]

\* a row left in "messages" by earlier ingestion
Stale(id, chat) ==
    [id |-> id, chat_id |-> chat, message |-> T_old, message_type |-> "question",
     ai |-> FALSE, created_at |-> id, is_image |-> FALSE]

InitialMessages(n) ==
    [k \in 1..(n + 1) |-> IF k <= n THEN Stale(k, 1) ELSE Stale(k, 2)]

\* os.environ: a variable that is not set is a name outside DOMAIN
Environments ==
    {[VK_TOKEN |-> <<"t">>, MINIO_LOGIN |-> <<"m">>, MINIO_PWD |-> <<"p">>],
     [VK_TOKEN |-> <<"t">>, VK_GROUP_ID |-> <<"5", "5", "5">>, MINIO_LOGIN |-> <<"m">>],
     [VK_TOKEN |-> <<"t">>, VK_GROUP_ID |-> <<"g">>, MINIO_PWD |-> <<"p">>],
     [VK_GROUP_ID |-> <<"5", "5", "5">>],
     [VK_GROUP_ID |-> <<"g">>]}

getenv(e, key, default) == Get(e, key, default)

----------------------------------------------------------------------------
(* The synchronous code of sync_vk *)

\* get_chat: scalar_one_or_none of the row with this id
get_chat(cid) == IF cid \in DOMAIN chats THEN <<chats[cid]>> ELSE <<>>

\* the committed rows of a conversation, in id order
RowsOf(cid) == SelectSeq(messages, LAMBDA m : m.chat_id = cid)

\* get_messages: the rows of a conversation ordered by created_at (ties by id)
RECURSIVE ByCreatedAt(_)
ByCreatedAt(rows) ==
    IF rows = <<>> THEN <<>>
    ELSE LET x == rows[Len(rows)]
             before == ByCreatedAt(SubSeq(rows, 1, Len(rows) - 1))
             k == Cardinality({n \in DOMAIN before :
                                  before[n].created_at <= x.created_at})
         IN  SubSeq(before, 1, k) \o <<x>> \o SubSeq(before, k + 1, Len(before))

get_messages(cid) == ByCreatedAt(RowsOf(cid))

\* one getHistory page: the items at offset .. offset + count - 1
HistoryPage(offset) == SubSeq(remote, offset + 1, Min(offset + count, Len(remote)))

has_text(msg) == Truthy(Get(msg, "text", <<>>))

has_photo(msg) ==
    LET atts == Get(msg, "attachments", <<>>)
    IN  Truthy(atts) /\ \E a \in DOMAIN atts : Get(atts[a], "type", "") = "photo"

\* a filter that keeps only the items with text
FilterTextOnly(all) == SelectSeq(all, LAMBDA msg : has_text(msg))

\* lines 318-328
FilterRelevant(all) == SelectSeq(all, LAMBDA msg : has_text(msg) \/ has_photo(msg))

DateKey(msg) == Get(msg, "date", 0)

\* list.sort(key=date): stable, ascending
RECURSIVE SortByDate(_)
SortByDate(items) ==
    IF items = <<>> THEN <<>>
    ELSE LET x == items[Len(items)]
             before == SortByDate(SubSeq(items, 1, Len(items) - 1))
             k == Cardinality({n \in DOMAIN before : DateKey(before[n]) <= DateKey(x)})
         IN  SubSeq(before, 1, k) \o <<x>> \o SubSeq(before, k + 1, Len(before))

\* a platform check that lets every conversation through
AnyChat(chat) == TRUE

\* line 261, negated: the conversation is a VK one
IsVkChat(chat) == chat.messager = "vk"

\* a comparison that takes a transcript with records in excess for synchronized
CountsAtLeast(vk_count, db_count) == vk_count <= db_count

\* a comparison with the test inverted
CountsDiffer(vk_count, db_count) == vk_count # db_count

\* line 338
CountsMatch(vk_count, db_count) == vk_count = db_count

\* a classification by the sign of the sender id alone
MessageTypeBySign(from_id, group_id) ==
    IF from_id < 0 THEN "answer" ELSE "question"

\* lines 363-366
MessageType(from_id, group_id) ==
    IF from_id < 0 \/ from_id = group_id THEN "answer" ELSE "question"

\* the value of the last size key the photo has
LastSizeKey(photo) ==
    IF \E k \in DOMAIN SizeKeys : SizeKeys[k] \in DOMAIN photo
    THEN photo[SizeKeys[CHOOSE k \in DOMAIN SizeKeys :
                   /\ SizeKeys[k] \in DOMAIN photo
                   /\ \A m \in (k + 1)..Len(SizeKeys) : SizeKeys[m] \notin DOMAIN photo]]
    ELSE <<>>

\* lines 385-389: the value of the first size key the photo has, else None
FirstSizeKey(photo) ==
    IF \E k \in DOMAIN SizeKeys : SizeKeys[k] \in DOMAIN photo
    THEN photo[SizeKeys[CHOOSE k \in DOMAIN SizeKeys :
                   /\ SizeKeys[k] \in DOMAIN photo
                   /\ \A m \in 1..(k - 1) : SizeKeys[m] \notin DOMAIN photo]]
    ELSE <<>>

\* max(sizes, key=height): the first entry of maximal height
MaxSize(sizes) ==
    sizes[CHOOSE k \in DOMAIN sizes :
            /\ \A m \in DOMAIN sizes : Get(sizes[m], "height", 0) <= Get(sizes[k], "height", 0)
            /\ \A m \in 1..(k - 1) : Get(sizes[m], "height", 0) < Get(sizes[k], "height", 0)]

\* lines 383-396: photo_url, <<>> when none resolves
ResolvePhotoUrl(att) ==
    LET photo == Get(att, "photo", <<>>)
        fixed == FirstSizeKey(photo)
    IN  IF ~Truthy(fixed) /\ "sizes" \in DOMAIN photo /\ Truthy(photo["sizes"])
        THEN Get(MaxSize(photo["sizes"]), "url", <<>>)
        ELSE fixed

\* datetime.fromtimestamp(ts) on a host whose local time is UTC
fromtimestamp(ts) == ts

\* created_at of the records of an item
CreatedAt(msg, now) ==
    IF DateKey(msg) # 0 THEN fromtimestamp(DateKey(msg)) ELSE now

\* a Message object handed to db.add (its id is set when it is flushed)
NewMessage(cid, body, mtype, created, image) ==
    [chat_id |-> cid, message |-> body, message_type |-> mtype, ai |-> FALSE,
     created_at |-> created, is_image |-> image]

\* lines 369-378
TextRecord(l, msg, now) ==
    NewMessage(l.chat_id, Get(msg, "text", <<>>),
               MessageType(Get(msg, "from_id", 0), l.VK_GROUP_ID),
               CreatedAt(msg, now), FALSE)

\* lines 450-457
MediaRecord(l, msg, img_url, now) ==
    NewMessage(l.chat_id, img_url,
               MessageType(Get(msg, "from_id", 0), l.VK_GROUP_ID),
               CreatedAt(msg, now), TRUE)

\* lines 421-422
FileName(l, msg, photo_url, now) ==
    LET ext == SplitExt(BeforeQuery(photo_url))
        file_ext == IF Truthy(ext) THEN ext ELSE <<".", "j", "p", "g">>
        stamp == IF DateKey(msg) # 0 THEN DateKey(msg) ELSE now
    IN  IntToStr(l.peer_id) \o <<"-">> \o IntToStr(stamp) \o file_ext

\* line 439
ObjectUrl(file_name) ==
    <<"http://">> \o APP_HOST \o <<":9000/">> \o BUCKET_NAME \o <<"/">> \o file_name

\* db.add(rec) in transaction t; src remembers the remote item (and the
\* attachment, 0 for the text) each added object was built from
Add(t, rec, msg, j) ==
    [t EXCEPT !.adds = Append(@, rec),
              !.src = Append(@, [id |-> msg.id, att |-> j])]

\* lines 354-458, from attachment j of item i (j = 0: the top of the loop body)
\* to the next await: the download of a resolved photo, or the final commit
RECURSIVE LoopFrom(_, _, _, _, _)
LoopFrom(l, t, i, j, now) ==
    IF i > Len(l.vk_messages_filtered)
    THEN [pc |-> "commit2", i |-> i, j |-> j, t |-> t, photo_url |-> <<>>]
    ELSE LET msg == l.vk_messages_filtered[i]
             atts == Get(msg, "attachments", <<>>)
         IN  IF j = 0
             THEN LoopFrom(l, IF has_text(msg) THEN Add(t, TextRecord(l, msg, now), msg, 0)
                              ELSE t, i, 1, now)
             ELSE IF j > Len(atts)
             THEN LoopFrom(l, t, i + 1, 0, now)
             ELSE IF Get(atts[j], "type", "") = "photo" /\ Truthy(ResolvePhotoUrl(atts[j]))
             THEN [pc |-> "download", i |-> i, j |-> j, t |-> t,
                   photo_url |-> ResolvePhotoUrl(atts[j])]
             ELSE LoopFrom(l, t, i, j + 1, now)

----------------------------------------------------------------------------
(* State of one invocation *)

\* the locals of sync_vk before their first assignment
NoLocals ==
    [chat_id |-> 0, VK_GROUP_ID |-> 0, minio_client |-> FALSE, peer_id |-> 0,
     all_vk_messages |-> <<>>, offset |-> 0, vk_messages_filtered |-> <<>>,
     vk_count |-> 0, db_count |-> 0, i |-> 0, j |-> 0, photo_url |-> <<>>,
     content |-> <<>>, file_name |-> <<>>, exc |-> ""]

\* a session with no statement pending: del holds the ids a DELETE has marked,
\* adds the objects handed to db.add, src where each of them came from
NoTransaction == [del |-> {}, adds |-> <<>>, src |-> <<>>]

NoResult == [kind |-> "none"]

\* no tag call yet: the function called, its arguments, the tags of the ORM
\* object it loaded, the tag list when it was called, and what it returned
NoTagCall == [pc |-> "idle", op |-> "none", chat_id |-> 0, tag |-> "", tags |-> <<>>,
              before |-> <<>>, result |-> NoResult]

\* no request yet: the request's headers, the token taken from them, what the
\* identity service answered, what check_permissions returned, what
\* verify_token returned or raised, and the requests seen so far
NoRequest == [pc |-> "idle", headers |-> <<>>, token |-> <<>>, response |-> NoResult,
              is_authorized |-> FALSE, asked |-> FALSE, result |-> NoResult,
              served |-> 0]

\* what is remembered of a call: its argument, the tables when it was made,
\* the external calls that failed, the statements it ran, whether another call
\* overlapped it, the calls that had returned before it, the two counts it
\* compared, the objects its final commit flushed, with the remote item each
\* came from, and the number of history pages it was served
NoHistory == [chat_id |-> 0, pre |-> <<>>, chats |-> <<>>, faults |-> {}, ops |-> {},
              overlap |-> FALSE, after |-> {}, counts |-> <<>>, built |-> <<>>,
              src |-> <<>>, requests |-> 0]

Active(r) == pc[r] \notin {"idle", "done"}

\* between the Compare phase's mismatch and the return of the call
Rebuilding(r) == pc[r] \in {"delete", "commit1", "download", "upload", "commit2"}

InitOf(histories, faults) ==
    /\ chats = InitialChats
    /\ \E n \in 0..MaxStale : messages = InitialMessages(n) /\ nextId = n + 2
    /\ bucket = {}
    /\ remote \in histories
    /\ env \in Environments
    /\ clock = ClockStart
    /\ pc = [r \in Runs |-> "idle"]
    /\ loc = [r \in Runs |-> NoLocals]
    /\ sess = [r \in Runs |-> NoTransaction]
    /\ result = [r \in Runs |-> NoResult]
    /\ hist = [r \in Runs |-> NoHistory]
    /\ budget = faults
    /\ seen = [chat_id |-> 0, rows |-> <<>>, during |-> {}]
    /\ tagop = NoTagCall
    /\ auth = NoRequest

\* up to MaxFaults external calls fail
Init == InitOf(Histories, MaxFaults)

\* no external call fails
InitCalm == InitOf(Histories, 0)

\* the remote history holds one photo, of any shape
InitPhoto == InitOf(PhotoHistories, 0)

----------------------------------------------------------------------------
(* Control transfers *)

Goto(r, p, l) ==
    /\ pc' = [pc EXCEPT ![r] = p]
    /\ loc' = [loc EXCEPT ![r] = l]
    /\ UNCHANGED result

\* return res / an exception leaving sync_vk: the frame is gone
Leave(r, res) ==
    /\ pc' = [pc EXCEPT ![r] = "done"]
    /\ loc' = [loc EXCEPT ![r] = NoLocals]
    /\ result' = [result EXCEPT ![r] = res]

\* lines 470-471: an exception inside the try block reaches the handler, which
\* awaits db.rollback()
Except(r, e) == Goto(r, "rollback", [loc[r] EXCEPT !.exc = e])

\* the call's history: external calls that failed in this step, statements done
Note(r, faults, ops) ==
    /\ budget >= Cardinality(faults)
    /\ budget' = budget - Cardinality(faults)
    /\ hist' = [hist EXCEPT ![r].faults = @ \cup faults, ![r].ops = @ \cup ops]

----------------------------------------------------------------------------
(* The database session *)

\* a DELETE without its WHERE clause
DeleteAll(cid) == {m.id : m \in Range(messages)}

\* DELETE FROM messages WHERE chat_id = cid: the rows the statement marks
DeleteWhere(cid) == {m.id : m \in Range(RowsOf(cid))}

\* COMMIT: the marked rows go, the added objects are flushed with fresh ids
Flush(t) ==
    SelectSeq(messages, LAMBDA m : m.id \notin t.del)
        \o [k \in 1..Len(t.adds) |-> [id |-> nextId + k - 1] @@ t.adds[k]]

Commit(r) ==
    /\ messages' = Flush(sess[r])
    /\ nextId' = nextId + Len(sess[r].adds)

----------------------------------------------------------------------------
(* sync_vk, one action per await *)

\* the caller invokes sync_vk(db, cid); the body runs up to its first await
\* (the history of a call that has returned is dropped at the next call)
Call(r, cid) ==
    /\ pc[r] = "idle"
    /\ r = 1 \/ (pc[1] # "idle" /\ cid = hist[1].chat_id)
    /\ pc' = [pc EXCEPT ![r] = "lookup"]
    /\ loc' = [loc EXCEPT ![r] = [NoLocals EXCEPT !.chat_id = cid]]
    /\ hist' = [o \in Runs |->
                  IF o = r
                  THEN [chat_id |-> cid, pre |-> messages, chats |-> chats,
                        faults |-> {}, ops |-> {},
                        overlap |-> \E q \in Runs : Active(q),
                        after |-> {q \in Runs : pc[q] = "done"},
                        counts |-> <<>>, built |-> <<>>, src |-> <<>>, requests |-> 0]
                  ELSE IF Active(o) THEN [hist[o] EXCEPT !.overlap = TRUE]
                  ELSE NoHistory]
    /\ clock' = clock + 1
    /\ UNCHANGED <<chats, messages, nextId, bucket, remote, env, sess, result,
                   budget, seen, tagop, auth>>

\* a call made when no other invocation is in progress
CallAlone(r, cid) == (\A q \in Runs : ~Active(q)) /\ Call(r, cid)

\* lines 256-290: get_chat answers; the checks up to the first getHistory
Lookup(r) ==
    /\ pc[r] = "lookup"
    /\ UNCHANGED <<chats, messages, nextId, bucket, remote, env, clock, sess,
                   seen, tagop, auth>>
    /\ \/ /\ Note(r, {"lookup"}, {})
          /\ Leave(r, [kind |-> "raise", error |-> "get_chat"])
       \/ /\ Note(r, {}, {})
          /\ LET chat == get_chat(loc[r].chat_id)
                 gid == ParseInt(getenv(env, "VK_GROUP_ID", <<"0">>))
                 token == getenv(env, "VK_TOKEN", <<>>)
                 minio == /\ Truthy(getenv(env, "MINIO_LOGIN", <<>>))
                          /\ Truthy(getenv(env, "MINIO_PWD", <<>>))
             IN  IF chat = <<>>
                 THEN Leave(r, [kind |-> "return", success |-> FALSE,
                                message |-> "Chat not found"])
                 ELSE IF ~IsVkChat(chat[1])
                 THEN Leave(r, [kind |-> "return", success |-> FALSE,
                                message |-> "Chat is not a VK chat"])
                 ELSE IF ~gid.ok
                 THEN Except(r, "ValueError")
                 ELSE IF ~Truthy(token)
                 THEN Leave(r, [kind |-> "return", success |-> FALSE,
                                message |-> "VK_TOKEN not found"])
                 ELSE IF ~ParseInt(chat[1].uuid).ok
                 THEN Except(r, "ValueError")
                 ELSE Goto(r, "page",
                           [loc[r] EXCEPT !.VK_GROUP_ID = gid.val,
                                          !.minio_client = minio,
                                          !.peer_id = ParseInt(chat[1].uuid).val,
                                          !.all_vk_messages = <<>>,
                                          !.offset = 0])

\* the loop of lines 298-316 left at this page, then lines 318-330
LastPage(r, all) ==
    Goto(r, "count", [loc[r] EXCEPT !.all_vk_messages = all,
                                   !.vk_messages_filtered = FilterRelevant(all),
                                   !.vk_count = Len(FilterRelevant(all))])

\* a failed page taken for the end of the history
PageFailedAsLast(r) == LastPage(r, loc[r].all_vk_messages)

\* lines 299-304, 470: getHistory raises inside the try block
PageFailed(r) == Except(r, "getHistory")

\* a test that takes every page that is not empty for the last
StopsAtFirstPage(items) == items = <<>> \/ Len(items) <= count

\* lines 307, 313: the page is empty or shorter than count
IsLastPage(items) == items = <<>> \/ Len(items) < count

\* lines 298-330: one getHistory page answers; after the last page, the filter
Page(r) ==
    /\ pc[r] = "page"
    /\ UNCHANGED <<chats, messages, nextId, bucket, remote, env, clock, sess,
                   seen, tagop, auth>>
    /\ \/ /\ Note(r, {"page"}, {})
          /\ PageFailed(r)
       \/ /\ budget' = budget
          /\ hist' = [hist EXCEPT ![r].requests = @ + 1]
          /\ LET items == HistoryPage(loc[r].offset)
                 all == loc[r].all_vk_messages \o items
             IN  IF IsLastPage(items)
                 THEN LastPage(r, all)
                 ELSE Goto(r, "page",
                           [loc[r] EXCEPT !.all_vk_messages = all,
                                          !.offset = @ + count])

\* lines 333-344: the count query answers; equal counts return
Count(r) ==
    /\ pc[r] = "count"
    /\ UNCHANGED <<chats, messages, nextId, bucket, remote, env, clock, sess,
                   seen, tagop, auth>>
    /\ \/ /\ Note(r, {"count"}, {})
          /\ Except(r, "SQLAlchemyError")
       \/ /\ budget' = budget
          /\ LET db_count == Len(RowsOf(loc[r].chat_id))
             IN  hist' = [hist EXCEPT ![r].counts = <<loc[r].vk_count, db_count>>]
          /\ LET db_count == Len(RowsOf(loc[r].chat_id))
             IN  IF CountsMatch(loc[r].vk_count, db_count)
                 THEN Leave(r, [kind |-> "return", success |-> TRUE,
                                message |-> "Messages are already synchronized",
                                vk_count |-> loc[r].vk_count, db_count |-> db_count])
                 ELSE Goto(r, "delete", [loc[r] EXCEPT !.db_count = db_count])

\* line 347: the DELETE statement runs in the session's transaction
Delete(r) ==
    /\ pc[r] = "delete"
    /\ UNCHANGED <<chats, messages, nextId, bucket, remote, env, clock, seen,
                   tagop, auth>>
    /\ \/ /\ Note(r, {"delete"}, {})
          /\ Except(r, "SQLAlchemyError")
          /\ UNCHANGED sess
       \/ /\ Note(r, {}, {"delete"})
          /\ sess' = [sess EXCEPT ![r].del = DeleteWhere(loc[r].chat_id)]
          /\ Goto(r, "commit1", loc[r])

\* the loop of lines 354-458 runs on from (i, j) in transaction t
Resume(r, l, t, i, j) ==
    LET to == LoopFrom(l, t, i, j, clock')
    IN  /\ sess' = [sess EXCEPT ![r] = to.t]
        /\ Goto(r, to.pc, [l EXCEPT !.i = to.i, !.j = to.j, !.photo_url = to.photo_url,
                                    !.content = <<>>, !.file_name = <<>>])

\* line 348: the commit of the delete; then the sort and the loop up to its
\* first await
Commit1(r) ==
    /\ pc[r] = "commit1"
    /\ UNCHANGED <<chats, bucket, remote, env, clock, seen, tagop, auth>>
    /\ \/ /\ Note(r, {"commit1"}, {})
          /\ Except(r, "SQLAlchemyError")
          /\ UNCHANGED <<messages, nextId, sess>>
       \/ /\ Note(r, {}, {"commit1"})
          /\ Commit(r)
          /\ Resume(r, [loc[r] EXCEPT !.vk_messages_filtered = SortByDate(@)],
                    NoTransaction, 1, 0)

\* the loop goes on without a record when the photo was not stored
AddMediaIfStored(r, img_url) ==
    LET l == loc[r]
        msg == l.vk_messages_filtered[l.i]
        rec == MediaRecord(l, msg, img_url, clock')
    IN  Resume(r, l, IF img_url = l.photo_url THEN sess[r]
                     ELSE Add(sess[r], rec, msg, l.j), l.i, l.j + 1)

\* lines 450-458: the media record of the current attachment, then the loop
AddMedia(r, img_url) ==
    LET l == loc[r]
        msg == l.vk_messages_filtered[l.i]
        rec == MediaRecord(l, msg, img_url, clock')
    IN  Resume(r, l, Add(sess[r], rec, msg, l.j), l.i, l.j + 1)

\* lines 400-429, 443-448: the GET of the photo and its body arrive
Download(r) ==
    /\ pc[r] = "download"
    /\ clock' = clock + 1
    /\ UNCHANGED <<chats, messages, nextId, bucket, remote, env, seen, tagop, auth>>
    /\ \/ /\ Note(r, {"media"}, {})     \* http_sess.get raises
          /\ AddMedia(r, loc[r].photo_url)
       \/ /\ Note(r, {"media"}, {})     \* resp.status != 200
          /\ AddMedia(r, loc[r].photo_url)
       \/ /\ Note(r, {"media"}, {})     \* resp.read raises
          /\ AddMedia(r, loc[r].photo_url)
       \/ /\ Note(r, {"media"}, {})     \* the body is empty
          /\ AddMedia(r, loc[r].photo_url)
       \/ /\ Note(r, {}, {})
          /\ IF loc[r].minio_client
             THEN /\ UNCHANGED sess
                  /\ Goto(r, "upload",
                          [loc[r] EXCEPT
                             !.content = loc[r].photo_url,
                             !.file_name = FileName(loc[r],
                                               loc[r].vk_messages_filtered[loc[r].i],
                                               loc[r].photo_url, clock')])
             ELSE AddMedia(r, loc[r].photo_url)

\* lines 431-442: put_object answers
Upload(r) ==
    /\ pc[r] = "upload"
    /\ UNCHANGED <<chats, messages, nextId, remote, env, clock, seen, tagop, auth>>
    /\ \/ /\ Note(r, {"media"}, {})     \* put_object raises
          /\ AddMedia(r, loc[r].photo_url)
          /\ UNCHANGED bucket
       \/ /\ Note(r, {}, {})
          /\ bucket' = {o \in bucket : o.key # loc[r].file_name}
                          \cup {[key |-> loc[r].file_name, body |-> loc[r].content]}
          /\ AddMedia(r, ObjectUrl(loc[r].file_name))

\* lines 460-468: the final commit flushes the inserts
Commit2(r) ==
    /\ pc[r] = "commit2"
    /\ UNCHANGED <<chats, bucket, remote, env, clock, seen, tagop, auth>>
    /\ \/ /\ Note(r, {"commit2"}, {})
          /\ Except(r, "SQLAlchemyError")
          /\ UNCHANGED <<messages, nextId, sess>>
       \/ /\ budget' = budget
          /\ hist' = [hist EXCEPT ![r].ops = @ \cup {"commit2"},
                                   ![r].built = sess[r].adds,
                                   ![r].src = sess[r].src]
          /\ Commit(r)
          /\ sess' = [sess EXCEPT ![r] = NoTransaction]
          /\ Leave(r, [kind |-> "return", success |-> TRUE,
                       message |-> "Messages synchronized successfully",
                       vk_count |-> loc[r].vk_count,
                       db_count_before |-> loc[r].db_count,
                       db_count_after |-> loc[r].vk_count])

\* lines 470-472: the handler's rollback answers
Rollback(r) ==
    /\ pc[r] = "rollback"
    /\ UNCHANGED <<chats, messages, nextId, bucket, remote, env, clock, seen,
                   tagop, auth>>
    /\ \/ /\ Note(r, {"rollback"}, {})
          /\ UNCHANGED sess
          /\ Leave(r, [kind |-> "raise", error |-> "rollback"])
       \/ /\ Note(r, {}, {"rollback"})
          /\ sess' = [sess EXCEPT ![r] = NoTransaction]
          /\ Leave(r, [kind |-> "return", success |-> FALSE,
                       message |-> "Error during synchronization: " \o loc[r].exc])

\* lines 76-82: a reader in a session of its own lists a conversation, once,
\* while a rebuild of it is in progress
Reader(cid) ==
    /\ seen.chat_id = 0
    /\ \E r \in Runs : Rebuilding(r) /\ loc[r].chat_id = cid
    /\ seen' = [chat_id |-> cid, rows |-> get_messages(cid),
                during |-> {r \in Runs : Rebuilding(r) /\ loc[r].chat_id = cid}]
    /\ UNCHANGED <<chats, messages, nextId, bucket, remote, env, clock, pc, loc,
                   sess, result, hist, budget, tagop, auth>>

Step(r) ==
    \/ Lookup(r) \/ Page(r) \/ Count(r) \/ Delete(r) \/ Commit1(r)
    \/ Download(r) \/ Upload(r) \/ Commit2(r) \/ Rollback(r)

\* one invocation, whose external calls may fail, and a reader
Next ==
    \/ \E cid \in ChatIds : Call(1, cid)
    \/ Step(1)
    \/ Reader(1)

Spec == Init /\ [][Next]_vars

\* one invocation over a history of one photo
SpecPhoto == InitPhoto /\ [][Next]_vars

\* two invocations for one conversation, the second after the first returned
NextTwice ==
    \/ \E r \in Runs, cid \in ChatIds : CallAlone(r, cid)
    \/ \E r \in Runs : Step(r)

SpecTwice == InitCalm /\ [][NextTwice]_vars

\* two invocations for one conversation that may overlap
NextOverlap ==
    \/ \E r \in Runs, cid \in ChatIds : Call(r, cid)
    \/ \E r \in Runs : Step(r)

SpecOverlap == InitCalm /\ [][NextOverlap]_vars

----------------------------------------------------------------------------
(* add_chat_tag and remove_chat_tag, one action per await *)

Tags == {"a", "b", "c"}

\* the tag lists create_chat may have stored: no tag twice
RECURSIVE TagLists(_)
TagLists(ts) ==
    {<<>>} \cup UNION {{<<t>> \o rest : rest \in TagLists(ts \ {t})} : t \in ts}

\* the list grows by the tag whether or not it holds it
AppendAlways(tags, tag) == Append(tags, tag)

\* lines 218-219
WithTag(tags, tag) == IF tag \notin Range(tags) THEN Append(tags, tag) ELSE tags

\* lines 239-240
WithoutTag(tags, tag) ==
    IF tag \in Range(tags) THEN SelectSeq(tags, LAMBDA t : t # tag) ELSE tags

\* no sync_vk call is made: an empty history, one stored record, the
\* conversations with the tag lists given
InitAtRest(lists) ==
    /\ \E ts \in lists : chats = [InitialChats EXCEPT ![1].tags = ts]
    /\ messages = InitialMessages(0) /\ nextId = 2
    /\ bucket = {}
    /\ remote = <<>>
    /\ env = [VK_TOKEN |-> <<"t">>]
    /\ clock = ClockStart
    /\ pc = [r \in Runs |-> "idle"]
    /\ loc = [r \in Runs |-> NoLocals]
    /\ sess = [r \in Runs |-> NoTransaction]
    /\ result = [r \in Runs |-> NoResult]
    /\ hist = [r \in Runs |-> NoHistory]
    /\ budget = 0
    /\ seen = [chat_id |-> 0, rows |-> <<>>, during |-> {}]
    /\ tagop = NoTagCall
    /\ auth = NoRequest

\* conversation 1 has any tag list create_chat may have stored
InitTags == InitAtRest(TagLists(Tags))

TagFrame == UNCHANGED <<messages, nextId, bucket, remote, env, clock, pc, loc, sess,
                        result, hist, budget, seen, auth>>

\* lines 207-208, 228-229: the call, made when no other tag call is in
\* progress, runs up to its await of get_chat
TagCall(op, cid, tag) ==
    /\ tagop.pc \in {"idle", "done"}
    /\ tagop' = [NoTagCall EXCEPT !.pc = "get", !.op = op, !.chat_id = cid, !.tag = tag,
                                  !.before = IF cid \in DOMAIN chats THEN chats[cid].tags
                                             ELSE <<>>]
    /\ UNCHANGED chats
    /\ TagFrame

\* lines 208-221, 229-242: get_chat answers; the new list is set on the object
TagGet ==
    /\ tagop.pc = "get"
    /\ UNCHANGED chats
    /\ TagFrame
    /\ LET chat == get_chat(tagop.chat_id)
       IN  IF chat = <<>>
           THEN tagop' = [tagop EXCEPT !.pc = "done",
                                       !.result = [kind |-> "return", message |-> "error"]]
           ELSE tagop' = [tagop EXCEPT
                            !.pc = "commit",
                            !.tags = IF tagop.op = "add" THEN WithTag(chat[1].tags, tagop.tag)
                                     ELSE WithoutTag(chat[1].tags, tagop.tag)]

\* lines 221, 242: the commit answers, or raises
TagCommit ==
    /\ tagop.pc = "commit"
    /\ TagFrame
    /\ \/ /\ chats' = [chats EXCEPT ![tagop.chat_id].tags = tagop.tags]
          /\ tagop' = [tagop EXCEPT !.pc = "refresh"]
       \/ /\ UNCHANGED chats
          /\ tagop' = [tagop EXCEPT !.pc = "rollback"]

\* lines 222-223, 243-244: the refresh answers, or raises
TagRefresh ==
    /\ tagop.pc = "refresh"
    /\ UNCHANGED chats
    /\ TagFrame
    /\ \/ tagop' = [tagop EXCEPT !.pc = "done",
                                  !.tags = chats[tagop.chat_id].tags,
                                  !.result = [kind |-> "return", success |-> TRUE,
                                              tags |-> chats[tagop.chat_id].tags]]
       \/ tagop' = [tagop EXCEPT !.pc = "rollback"]

\* lines 224-226, 245-247: the handler's rollback answers
TagRollback ==
    /\ tagop.pc = "rollback"
    /\ UNCHANGED chats
    /\ TagFrame
    /\ tagop' = [tagop EXCEPT !.pc = "done",
                              !.result = [kind |-> "return", message |-> "error"]]

NextTags ==
    \/ \E op \in {"add", "remove"}, cid \in {1, 4}, tag \in Tags : TagCall(op, cid, tag)
    \/ TagGet
    \/ TagCommit
    \/ TagRefresh
    \/ TagRollback

\* tag calls one after another on a conversation of any tag list
SpecTags == InitTags /\ [][NextTags]_vars

----------------------------------------------------------------------------
(* auth.py: verify_token, get_token_from_header, check_permissions *)

Bearer == <<"B", "e", "a", "r", "e", "r", " ">>

\* s.startswith(prefix)
StartsWith(s, prefix) == Len(s) >= Len(prefix) /\ SubSeq(s, 1, Len(prefix)) = prefix

\* s.replace(old, ""): every occurrence of old goes, left to right
RECURSIVE RemoveAll(_, _)
RemoveAll(s, old) ==
    IF Len(s) < Len(old) THEN s
    ELSE IF StartsWith(s, old) THEN RemoveAll(SubSeq(s, Len(old) + 1, Len(s)), old)
    ELSE <<s[1]>> \o RemoveAll(Tail(s), old)

\* the headers of a request: without Authorization, or with one of these values
Headers ==
    {[Accept |-> <<"*">>]}
        \cup {[Authorization |-> v] :
                 v \in {<<>>, <<"a">>, Bearer, Bearer \o <<"a">>, Bearer \o <<"u">>,
                        Bearer \o <<"x", "y">>, Bearer \o Bearer \o <<"a">>,
                        <<"B", "e", "a", "r", "e", "r", "a">>,
                        <<"b", "e", "a", "r", "e", "r", " ", "a">>,
                        <<"B", "a", "s", "i", "c", " ", "a">>}}

\* what session.get may do: raise, or answer with a status; a 200 comes with a
\* body that is no JSON object, or with one of these objects
Bodies ==
    {[garbled |-> TRUE],
     [garbled |-> FALSE, data |-> [id |-> 1]],
     [garbled |-> FALSE, data |-> [id |-> 1, is_admin |-> TRUE]],
     [garbled |-> FALSE, data |-> [id |-> 1, is_admin |-> FALSE]]}

Responses ==
    {[kind |-> "raise"]}
        \cup {[kind |-> "status", status |-> st] : st \in {401, 403, 500}}
        \cup {[kind |-> "status", status |-> 200, body |-> b] : b \in Bodies}

\* an administrator unless the body says otherwise
AdminByDefault(data) == Get(data, "is_admin", TRUE)

\* auth.py line 31: data.get("is_admin", False)
IsAdmin(data) == Get(data, "is_admin", FALSE)

\* auth.py lines 49-56
get_token_from_header(headers) ==
    LET authorization == Get(headers, "Authorization", <<>>)
    IN  IF ~Truthy(authorization) THEN <<>>
        ELSE IF ~StartsWith(authorization, Bearer) THEN <<>>
        ELSE RemoveAll(authorization, Bearer)

Unauthorized(detail) == [kind |-> "raise", status_code |-> 401, detail |-> detail]

\* auth.py lines 72-76: the end of verify_token, check_permissions having
\* returned is_authorized
Verified(is_authorized, response) ==
    auth' = [auth EXCEPT
               !.pc = "done", !.response = response, !.is_authorized = is_authorized,
               !.result = IF ~is_authorized
                          THEN Unauthorized("Invalid token or insufficient permissions")
                          ELSE [kind |-> "return", value |-> TRUE]]

AuthFrame == UNCHANGED <<chats, messages, nextId, bucket, remote, env, clock, pc, loc,
                         sess, result, hist, budget, seen, tagop>>

\* auth.py lines 68-72, 19-27: verify_token is called for a request and runs
\* up to the await of session.get
VerifyToken(headers) ==
    /\ auth.pc \in {"idle", "done"}
    /\ auth.served < MaxRequests
    /\ AuthFrame
    /\ LET token == get_token_from_header(headers)
           call == [NoRequest EXCEPT !.headers = headers, !.token = token,
                                     !.served = auth.served + 1]
       IN  IF ~Truthy(token)
           THEN auth' = [call EXCEPT
                           !.pc = "done",
                           !.result = Unauthorized("Authorization header missing or invalid")]
           ELSE auth' = [call EXCEPT !.pc = "get", !.asked = TRUE]

\* auth.py lines 27-37: session.get raises or answers with a status
Respond ==
    /\ auth.pc = "get"
    /\ AuthFrame
    /\ \E response \in Responses :
          IF response.kind = "status" /\ response.status = 200
          THEN auth' = [auth EXCEPT !.pc = "json", !.response = response]
          ELSE Verified(FALSE, response)

\* auth.py lines 29-31, 35-37: response.json() raises or gives the body
ReadBody ==
    /\ auth.pc = "json"
    /\ AuthFrame
    /\ IF auth.response.body.garbled
       THEN Verified(FALSE, auth.response)
       ELSE Verified(IsAdmin(auth.response.body.data), auth.response)

NextAuth ==
    \/ \E headers \in Headers : VerifyToken(headers)
    \/ Respond
    \/ ReadBody

\* requests checked one after another
InitAuth == InitAtRest({<<>>})

SpecAuth == InitAuth /\ [][NextAuth]_vars

----------------------------------------------------------------------------
(* Vocabulary of the properties *)

\* the call of r has returned or raised, and is still remembered
Done(r) == pc[r] = "done" /\ hist[r].chat_id # 0

Returned(r) == Done(r) /\ result[r].kind = "return"

Succeeded(r) == Returned(r) /\ result[r].success

Refused(r) == Returned(r) /\ ~result[r].success /\ result[r].message # ""

\* the records of the call's conversation when the call was made
PreRows(r) == SelectSeq(hist[r].pre, LAMBDA m : m.chat_id = hist[r].chat_id)

\* the records of the call's conversation now
NowRows(r) == RowsOf(hist[r].chat_id)

\* statements that change table "messages"
Writes == {"delete", "commit1", "commit2"}

\* database calls whose failure is a persistence error of the rebuild
PersistenceFaults == {"delete", "commit1", "commit2"}

\* the call ran a full rebuild: it deleted and its final commit went through
Rebuilt(r) == "commit2" \in hist[r].ops

\* a stored record without its id
Content(m) == [k \in DOMAIN m \ {"id"} |-> m[k]]

Contents(rows) == [k \in DOMAIN rows |-> Content(rows[k])]

----------------------------------------------------------------------------
(* C1 - C10 *)

\* C1 (as claimed): a call that returned after a persistence error during the
\* rebuild (at the delete, at its commit, or at the final commit that flushes
\* the inserts), no other external call having failed, leaves the
\* conversation's records exactly as they were before it.
C1_RebuildAtomic ==
    \A r \in Runs :
        (Returned(r) /\ hist[r].faults # {} /\ hist[r].faults \subseteq PersistenceFaults)
            => NowRows(r) = PreRows(r)

\* C2 (as claimed): after a successful rebuild the conversation holds as many
\* records as the remote history has relevant items.
C2_CountConvergence ==
    \A r \in Runs :
        (Succeeded(r) /\ Rebuilt(r)) => Len(NowRows(r)) = result[r].vk_count

\* C3 (as claimed): a call made after a successful call for the same
\* conversation, the remote history unchanged, runs no delete and no insert.
C3_Idempotent ==
    \A r \in Runs, q \in Runs :
        (Done(r) /\ q \in hist[r].after /\ result[q].kind = "return"
            /\ result[q].success /\ hist[r].faults = {})
            => hist[r].ops \cap Writes = {}

\* C4: when the count query finds as many records as the remote history has
\* relevant items, the call returns success with both counts, has run no
\* delete, no commit and no rollback, holds no pending statement, and every
\* table is as it was when the call was made.
C4_NoOpOnEqualCounts ==
    \A r \in Runs :
        (Done(r) /\ hist[r].counts # <<>> /\ hist[r].counts[1] = hist[r].counts[2])
            => /\ Succeeded(r)
               /\ result[r].vk_count = result[r].db_count
               /\ hist[r].ops = {}
               /\ sess[r] = NoTransaction
               /\ messages = hist[r].pre
               /\ chats = hist[r].chats

C4_Witness ==
    /\ Done(1) /\ hist[1].counts = <<2, 2>>
    /\ Succeeded(1)
    /\ \E k \in DOMAIN remote : has_text(remote[k]) /\ remote[k].text # T_old

\* the call was made for no conversation, for one that is not a VK one, or
\* with no VK token in the environment
EarlyFailure(r) ==
    \/ hist[r].chat_id \notin DOMAIN hist[r].chats
    \/ hist[r].chats[hist[r].chat_id].messager # "vk"
    \/ ~Truthy(getenv(env, "VK_TOKEN", <<>>))

\* C5: a call for a missing conversation, for a conversation of another
\* platform, or without a VK token leaves both tables as they were and runs
\* no delete and no commit; when no external call of it fails, it returns
\* success = false with a message.
C5_EarlyFailuresChangeNothing ==
    \A r \in Runs :
        (Done(r) /\ EarlyFailure(r))
            => /\ messages = hist[r].pre
               /\ chats = hist[r].chats
               /\ hist[r].ops \cap Writes = {}
               /\ hist[r].counts = <<>>
               /\ sess[r] = NoTransaction \/ "rollback" \in hist[r].faults
               /\ hist[r].faults = {} => Refused(r)

C5_Witness ==
    /\ Done(1) /\ hist[1].chat_id = 1 /\ hist[1].faults = {}
    /\ "VK_TOKEN" \notin DOMAIN env
    /\ PreRows(1) # <<>> /\ Len(remote) > 0
    /\ Refused(1)

\* C6: a call one of whose history page requests failed has compared nothing,
\* has run no delete and no commit, leaves both tables as they were and never
\* returns success; when the page request is the only external call that
\* fails, it returns success = false with a message.
C6_FetchFailureIsSafe ==
    \A r \in Runs :
        (Done(r) /\ "page" \in hist[r].faults)
            => /\ messages = hist[r].pre
               /\ chats = hist[r].chats
               /\ hist[r].ops \cap Writes = {}
               /\ hist[r].counts = <<>>
               /\ ~Succeeded(r)
               /\ hist[r].faults = {"page"} => Refused(r)

\* the second page request failed, after a full first page with relevant
\* items behind it
C6_Witness ==
    /\ Done(1) /\ hist[1].faults = {"page"}
    /\ Len(remote) > count
    /\ Len(FilterRelevant(remote)) # Len(PreRows(1))
    /\ PreRows(1) # <<>>
    /\ Refused(1)

\* C7 (as claimed): whatever external call fails, the call returns a result,
\* with success = false when the failure was not a recovered media failure,
\* and raises nothing.
C7_NoUnhandledFault ==
    \A r \in Runs :
        Done(r) => /\ result[r].kind = "return"
                   /\ hist[r].faults \ {"media"} # {} => Refused(r)

\* the step of r settles the current photo without an uploaded object
MediaFallback(r) ==
    /\ pc[r] \in {"download", "upload"}
    /\ loc'[r] # loc[r]
    /\ pc'[r] # "upload"
    /\ \/ budget' < budget
       \/ ~loc[r].minio_client

\* C8: whenever a resolved photo is not stored (the download raises, answers
\* with another status than 200 or with an empty body, the object store is not
\* configured, or the upload raises), the step adds exactly one record to the
\* session, a media record whose body is the resolved remote URL, and the loop
\* goes on to the next await: the next photo's download or the final commit.
C8_MediaFallback ==
    [][\A r \in Runs :
          MediaFallback(r) =>
              /\ Len(sess'[r].adds) >= Len(sess[r].adds) + 1
              /\ LET rec == sess'[r].adds[Len(sess[r].adds) + 1]
                 IN  /\ rec.message = loc[r].photo_url
                     /\ rec.is_image
                     /\ rec.chat_id = loc[r].chat_id
              /\ SubSeq(sess'[r].adds, 1, Len(sess[r].adds)) = sess[r].adds
              /\ Cardinality({k \in (Len(sess[r].adds) + 1)..Len(sess'[r].adds) :
                                 sess'[r].adds[k].is_image}) = 1
              /\ pc'[r] \in {"download", "commit2"}]_vars

\* a rebuild that fell back for a photo, went on, and committed the record
C8_Witness ==
    /\ Succeeded(1) /\ Rebuilt(1)
    /\ "media" \in hist[1].faults
    /\ \E k \in DOMAIN messages :
          /\ messages[k].chat_id = 1 /\ messages[k].is_image
          /\ messages[k].message = URL_L
    /\ \E k \in DOMAIN messages :
          /\ messages[k].chat_id = 1 /\ messages[k].is_image
          /\ messages[k].message # URL_L /\ messages[k].message # URL_A

\* C9 (as claimed): two overlapping successful calls for one conversation
\* leave what one rebuild leaves: the records one of them flushed, or the
\* records from before when neither rebuilt.
C9_SerializedRebuild ==
    \A r \in Runs, q \in Runs :
        (r # q /\ Succeeded(r) /\ Succeeded(q) /\ hist[r].overlap
            /\ hist[r].chat_id = hist[q].chat_id)
            => \/ \E w \in {r, q} : Rebuilt(w) /\ Contents(NowRows(r)) = hist[w].built
               \/ ~Rebuilt(r) /\ ~Rebuilt(q) /\ NowRows(r) = PreRows(r)

\* C10 (as claimed): what a reader saw while the call was rebuilding the
\* conversation is the complete transcript from before the call or the
\* complete transcript the call left.
C10_NoTornRead ==
    \A r \in Runs :
        (Done(r) /\ r \in seen.during /\ seen.chat_id = hist[r].chat_id)
            => \/ seen.rows = ByCreatedAt(PreRows(r))
               \/ seen.rows = get_messages(hist[r].chat_id)

----------------------------------------------------------------------------
(* C11 - C20 *)

\* a remote item with non-empty text or at least one attachment of type photo
Relevant(item) ==
    \/ "text" \in DOMAIN item /\ item.text # <<>>
    \/ /\ "attachments" \in DOMAIN item
       /\ \E a \in DOMAIN item.attachments :
             "type" \in DOMAIN item.attachments[a] /\ item.attachments[a].type = "photo"

RelevantIds == {remote[k].id : k \in {n \in DOMAIN remote : Relevant(remote[n])}}

\* the call has fetched the whole history and filtered it
Filtered(r) == pc[r] \in {"count", "delete", "commit1", "download", "upload", "commit2"}

\* C11: once a call has fetched the history, the items its rebuild considers
\* are exactly the remote items with non-empty text or a photo attachment, each
\* once, and vk_count is their number; the counts it compares and returns carry
\* that number, and no record it stores carries the date of an item that has
\* neither.
C11_FilterCorrectness ==
    \A r \in Runs :
        /\ Filtered(r) =>
              /\ {m.id : m \in Range(loc[r].vk_messages_filtered)} = RelevantIds
              /\ Len(loc[r].vk_messages_filtered) = Cardinality(RelevantIds)
              /\ loc[r].vk_count = Cardinality(RelevantIds)
        /\ (Done(r) /\ hist[r].counts # <<>>) =>
              hist[r].counts[1] = Cardinality(RelevantIds)
        /\ Succeeded(r) => result[r].vk_count = Cardinality(RelevantIds)
        /\ Rebuilt(r) =>
              \A b \in Range(hist[r].built) :
                  \A k \in DOMAIN remote :
                      ~Relevant(remote[k]) => b.created_at # Get(remote[k], "date", 0)

\* a rebuild from a long history that holds service items, a sticker and a
\* relevant item
C11_Witness ==
    /\ Succeeded(1) /\ Rebuilt(1)
    /\ Len(remote) > count
    /\ \E k \in DOMAIN remote : ~Relevant(remote[k]) /\ "attachments" \in DOMAIN remote[k]
    /\ Cardinality(RelevantIds) = 1
    /\ hist[1].built # <<>>

\* the sender id of a remote item, 0 when it has none
Sender(item) == IF "from_id" \in DOMAIN item THEN item.from_id ELSE 0

\* the group id the environment configures, 0 when it configures none
ConfiguredGroup ==
    IF "VK_GROUP_ID" \in DOMAIN env THEN ParseInt(env.VK_GROUP_ID).val ELSE 0

RoleOf(item) ==
    IF Sender(item) < 0 \/ Sender(item) = ConfiguredGroup THEN "answer" ELSE "question"

\* the remote item record k of a rebuild was built from
SourceOf(r, k) == remote[hist[r].src[k].id]

\* C12: every record a rebuild stored has role "answer" when the sender id of
\* its remote item (0 when missing) is negative or equals the configured group
\* id (0 when unconfigured), and "question" otherwise; the records of one item
\* carry one role.
C12_RoleClassification ==
    \A r \in Runs :
        Rebuilt(r) =>
            /\ \A k \in DOMAIN hist[r].built :
                  hist[r].built[k].message_type = RoleOf(SourceOf(r, k))
            /\ \A k, n \in DOMAIN hist[r].built :
                  hist[r].src[k].id = hist[r].src[n].id
                      => hist[r].built[k].message_type = hist[r].built[n].message_type

\* with no group id configured, a rebuild stored an answer built from an item
\* without sender id and a question; or, with one configured, an answer from
\* the group's id and an answer of negative sender with text and photo
C12_Witness ==
    /\ Rebuilt(1)
    /\ \/ /\ "VK_GROUP_ID" \notin DOMAIN env
          /\ \E k, n \in DOMAIN hist[1].built :
                /\ "from_id" \notin DOMAIN SourceOf(1, k)
                /\ hist[1].built[k].message_type = "answer"
                /\ hist[1].built[n].message_type = "question"
       \/ /\ "VK_GROUP_ID" \in DOMAIN env
          /\ \E k, n, q \in DOMAIN hist[1].built :
                /\ Sender(SourceOf(1, k)) = 555
                /\ hist[1].built[k].message_type = "answer"
                /\ Sender(SourceOf(1, n)) < 0
                /\ hist[1].src[n].id = hist[1].src[q].id /\ n # q
                /\ hist[1].built[q].message_type = "answer"

\* the ids of the relevant remote items, ascending by date (0 when missing),
\* items of one date in the order the service lists them
RECURSIVE AscendingByDate(_)
AscendingByDate(ids) ==
    IF ids = {} THEN <<>>
    ELSE LET first == CHOOSE a \in ids :
                          \A b \in ids :
                              \/ Get(remote[a], "date", 0) < Get(remote[b], "date", 0)
                              \/ /\ Get(remote[a], "date", 0) = Get(remote[b], "date", 0)
                                 /\ a <= b
         IN  <<first>> \o AscendingByDate(ids \ {first})

\* the remote items of a rebuild's records, each once, in order of appearance
RECURSIVE Squeeze(_)
Squeeze(ids) ==
    IF Len(ids) <= 1 THEN ids
    ELSE LET rest == Squeeze(Tail(ids))
         IN  IF ids[1] = rest[1] THEN rest ELSE <<ids[1]>> \o rest

\* the remote items that have a record in the rebuild of r
Stored(r) == {hist[r].src[k].id : k \in DOMAIN hist[r].src}

\* C13 (as claimed): after a successful rebuild the conversation's records, in
\* insertion order, have non-decreasing creation timestamps, and come from the
\* relevant remote items in ascending order of date, items without a date or
\* with date 0 included.
C13_Ordering ==
    \A r \in Runs :
        (Succeeded(r) /\ Rebuilt(r)) =>
            /\ \A k, n \in DOMAIN NowRows(r) :
                  k < n => NowRows(r)[k].created_at <= NowRows(r)[n].created_at
            /\ Squeeze([k \in DOMAIN hist[r].src |-> hist[r].src[k].id])
                  = AscendingByDate(Stored(r))

\* the positions in the priority order of the size keys a photo has
FixedPresent(photo) == {k \in DOMAIN SizeKeys : SizeKeys[k] \in DOMAIN photo}

\* the value of the first size key present
FirstPresent(photo) ==
    photo[SizeKeys[CHOOSE k \in FixedPresent(photo) : \A m \in FixedPresent(photo) : k <= m]]

HasSizes(photo) == "sizes" \in DOMAIN photo /\ photo.sizes # <<>>

HeightOf(entry) == IF "height" \in DOMAIN entry THEN entry.height ELSE 0

\* the urls (empty when missing) of the sizes entries of maximum height
TallestUrls(photo) ==
    {IF "url" \in DOMAIN photo.sizes[k] THEN photo.sizes[k].url ELSE <<>> :
        k \in {n \in DOMAIN photo.sizes :
                  \A m \in DOMAIN photo.sizes :
                      HeightOf(photo.sizes[m]) <= HeightOf(photo.sizes[n])}}

\* the URL of a photo as claimed: the sizes list only when no size key exists
ClaimedUrls(photo) ==
    IF FixedPresent(photo) # {} THEN {FirstPresent(photo)}
    ELSE IF HasSizes(photo) THEN TallestUrls(photo)
    ELSE {<<>>}

\* the URL of a photo as amended: the sizes list also when the first size key
\* present holds an empty value
AmendedUrls(photo) ==
    IF FixedPresent(photo) # {} /\ FirstPresent(photo) # <<>> THEN {FirstPresent(photo)}
    ELSE IF HasSizes(photo) THEN TallestUrls(photo)
    ELSE {<<>>}

\* the records a rebuild stored for attachment a of remote item k
RecordsOf(r, k, a) == {x \in DOMAIN hist[r].src : hist[r].src[x] = [id |-> k, att |-> a]}

\* every photo the loop goes to download has a URL among Urls(photo), and a
\* rebuild stores one record for a photo attachment that has a URL and none
\* for one that has not
ResolvesBy(Urls(_)) ==
    \A r \in Runs :
        /\ pc[r] \in {"download", "upload"} =>
              LET att == loc[r].vk_messages_filtered[loc[r].i].attachments[loc[r].j]
              IN  loc[r].photo_url \in Urls(att.photo) \ {<<>>}
        /\ Rebuilt(r) =>
              \A k \in DOMAIN remote :
                  \A a \in DOMAIN Get(remote[k], "attachments", <<>>) :
                      LET att == remote[k].attachments[a]
                          n == Cardinality(RecordsOf(r, k, a))
                      IN  att.type = "photo" =>
                              /\ n <= 1
                              /\ <<>> \notin Urls(att.photo) => n = 1
                              /\ Urls(att.photo) = {<<>>} => n = 0
                              /\ \A x \in RecordsOf(r, k, a) : hist[r].built[x].is_image

\* C14 (as claimed): the URL of a photo attachment is the value of the first
\* size key present in the priority order; only when no size key exists it is
\* the url of the sizes entry of maximum height; an attachment neither gives a
\* URL is skipped and has no record.
C14_SizeResolution == ResolvesBy(ClaimedUrls)

\* C14 (amended): the URL of a photo attachment is the value of the first size
\* key present in the priority order when that value is not empty; when no
\* size key exists or the first one present holds an empty value, it is the
\* url of the sizes entry of maximum height; an attachment neither gives a URL
\* is skipped and has no record.
C14_SizeResolutionAmended == ResolvesBy(AmendedUrls)

\* a rebuild, the object store not configured, stored the value of photo_604
\* for a photo that also has photo_75 and a sizes list
C14_Witness ==
    /\ Rebuilt(1)
    /\ LET photo == remote[1].attachments[Len(remote[1].attachments)].photo
       IN  /\ DOMAIN photo = {"photo_604", "photo_75", "sizes"}
           /\ photo.photo_604 # <<>> /\ photo.photo_75 # <<>> /\ Len(photo.sizes) = 2
           /\ \E x \in DOMAIN hist[1].built : hist[1].built[x].message = photo.photo_604

\* C15 (as claimed): the result of a successful rebuild carries the number of
\* relevant remote items as vk_count, the number of records the conversation
\* had before the delete as db_count_before, and the number of records it
\* holds after the final commit as db_count_after.
C15_TruthfulCounts ==
    \A r \in Runs :
        (Succeeded(r) /\ Rebuilt(r)) =>
            /\ result[r].vk_count = Cardinality(RelevantIds)
            /\ result[r].db_count_before = Len(PreRows(r))
            /\ result[r].db_count_after = Len(NowRows(r))

\* C16: a call served a history of n items in pages of 200 never makes more
\* than n \div 200 + 1 requests; when it leaves the paging loop it has made
\* exactly that many, the last one answered by an empty page or one shorter
\* than 200, and the list it holds is the remote history, every item once and
\* in the order served.
C16_PagingComplete ==
    \A r \in Runs :
        /\ hist[r].requests <= Len(remote) \div 200 + 1
        /\ Filtered(r) =>
              /\ hist[r].requests = Len(remote) \div 200 + 1
              /\ Len(remote) - loc[r].offset < 200
              /\ loc[r].offset = 200 * (hist[r].requests - 1)
              /\ loc[r].all_vk_messages = remote
        /\ (Done(r) /\ hist[r].counts # <<>>) =>
              hist[r].requests = Len(remote) \div 200 + 1

\* a history of exactly one full page, left after a second, empty page; and
\* one of a full page and a shorter one
C16_Witness ==
    /\ Filtered(1)
    /\ hist[1].requests = 2
    /\ Len(remote) \in {200, 202}
    /\ loc[1].vk_count = Len(remote) - 200

\* the records a rebuild stored for remote item k, in insertion order
ItemRecords(r, k) == {x \in DOMAIN hist[r].src : hist[r].src[x].id = k}

\* what a rebuild stored for each relevant item: one text record when the text
\* is not empty, then one media record for each photo attachment that has a
\* URL, in attachment order, and nothing else
RecordShape(r) ==
    /\ \A x \in DOMAIN hist[r].built : hist[r].src[x].id \in RelevantIds
    /\ \A x, y \in DOMAIN hist[r].built :
          /\ (x < y /\ hist[r].src[x].id = hist[r].src[y].id)
                => hist[r].src[x].att < hist[r].src[y].att
          /\ (x < y /\ hist[r].src[x].id = hist[r].src[y].id)
                => \A z \in x..y : hist[r].src[z].id = hist[r].src[x].id
    /\ \A k \in RelevantIds :
          LET item == remote[k]
              text == IF "text" \in DOMAIN item THEN item.text ELSE <<>>
              atts == IF "attachments" \in DOMAIN item THEN item.attachments ELSE <<>>
          IN  /\ Cardinality(RecordsOf(r, k, 0)) = IF text # <<>> THEN 1 ELSE 0
              /\ \A x \in RecordsOf(r, k, 0) :
                    /\ hist[r].built[x].message = text
                    /\ ~hist[r].built[x].is_image
              /\ \A a \in DOMAIN atts :
                    IF atts[a].type = "photo" /\ AmendedUrls(atts[a].photo) # {<<>>}
                    THEN /\ Cardinality(RecordsOf(r, k, a)) = 1
                         /\ \A x \in RecordsOf(r, k, a) :
                               /\ hist[r].built[x].is_image
                               /\ \/ hist[r].built[x].message \in AmendedUrls(atts[a].photo)
                                  \/ hist[r].built[x].message[1] = "http://"
                    ELSE RecordsOf(r, k, a) = {}
              /\ ItemRecords(r, k) = UNION {RecordsOf(r, k, a) : a \in 0..Len(atts)}
              /\ \A x \in ItemRecords(r, k) :
                    /\ ~hist[r].built[x].ai
                    /\ hist[r].built[x].chat_id = hist[r].chat_id
                    /\ hist[r].built[x].message_type \in {"answer", "question"}
                    /\ \A y \in ItemRecords(r, k) :
                          hist[r].built[x].message_type = hist[r].built[y].message_type

\* the records of one item carry one timestamp, the item's date when it has one
SharedTimestamp(r) ==
    \A k \in RelevantIds :
        \A x, y \in ItemRecords(r, k) :
            /\ hist[r].built[x].created_at = hist[r].built[y].created_at
            /\ ("date" \in DOMAIN remote[k] /\ remote[k].date # 0)
                  => hist[r].built[x].created_at = remote[k].date

\* C17 (as claimed): in a rebuild each relevant remote item yields one text
\* record (body the text, is_image false) when its text is not empty, followed
\* by one media record (body a URL, is_image true) for each photo attachment
\* with a resolved URL, in attachment order; attachments of other types yield
\* none; the records of one item share its timestamp and role, have ai false
\* and belong to the conversation.
C17_RecordProduction ==
    \A r \in Runs : Rebuilt(r) => RecordShape(r) /\ SharedTimestamp(r)

\* C18: the call compares the number of relevant remote items with the number
\* of records of the conversation and nothing else: when they are equal it
\* returns "already synchronized" and neither deletes nor stores a record,
\* whatever the records and the items hold; when they differ it does not
\* return that, and rebuilds when no external call fails.
C18_CountOnlyDetection ==
    \A r \in Runs :
        (Done(r) /\ hist[r].counts # <<>>) =>
            /\ hist[r].counts = <<Cardinality(RelevantIds), Len(PreRows(r))>>
            /\ hist[r].counts[1] = hist[r].counts[2] =>
                  /\ Succeeded(r)
                  /\ result[r].message = "Messages are already synchronized"
                  /\ ~Rebuilt(r) /\ "delete" \notin hist[r].ops
                  /\ NowRows(r) = PreRows(r)
            /\ hist[r].counts[1] # hist[r].counts[2] =>
                  /\ result[r].kind = "return"
                        => result[r].message # "Messages are already synchronized"
                  /\ hist[r].faults = {} => Succeeded(r) /\ Rebuilt(r)

\* two stale records against two remote items of other text, sender and
\* date: reported synchronized, the stale records kept
C18_Witness ==
    /\ Done(1) /\ hist[1].counts = <<2, 2>>
    /\ result[1].message = "Messages are already synchronized"
    /\ \A k \in DOMAIN remote : Relevant(remote[k]) /\ has_text(remote[k])
    /\ \A x \in DOMAIN NowRows(1) :
          /\ NowRows(1)[x].message = T_old
          /\ \A k \in DOMAIN remote : remote[k].text # NowRows(1)[x].message

NoDuplicate(tags) == \A x, y \in DOMAIN tags : x # y => tags[x] # tags[y]

TagCallSucceeded == tagop.pc = "done" /\ "success" \in DOMAIN tagop.result

\* C20: the tag list of a conversation created without duplicates never holds
\* a tag twice, whatever add_chat_tag and remove_chat_tag calls were made;
\* add_chat_tag of a tag the list holds and remove_chat_tag of one it does not
\* hold leave the list as it was; when remove_chat_tag(t) has succeeded, t is
\* in neither the list nor the tags it returned.
C20_TagUniqueness ==
    /\ \A c \in DOMAIN chats : NoDuplicate(chats[c].tags)
    /\ (tagop.pc # "idle" /\ tagop.chat_id \in DOMAIN chats) =>
          LET now == chats[tagop.chat_id].tags
          IN  /\ (tagop.op = "add" /\ tagop.tag \in Range(tagop.before))
                    => now = tagop.before
              /\ (tagop.op = "remove" /\ tagop.tag \notin Range(tagop.before))
                    => now = tagop.before
              /\ (tagop.op = "remove" /\ TagCallSucceeded)
                    => /\ tagop.tag \notin Range(now)
                       /\ tagop.tag \notin Range(tagop.result.tags)
                       /\ now = SelectSeq(tagop.before, LAMBDA t : t # tagop.tag)

\* an add_chat_tag of a tag the list of three tags holds has succeeded and
\* changed nothing
C20_Witness ==
    /\ TagCallSucceeded
    /\ tagop.op = "add" /\ tagop.tag \in Range(tagop.before)
    /\ Len(chats[1].tags) = 3 /\ tagop.chat_id = 1
    /\ tagop.result.tags = chats[1].tags

\* the Authorization header of the request, empty when it has none
Authorization == IF "Authorization" \in DOMAIN auth.headers
                 THEN auth.headers.Authorization ELSE <<>>

\* the identity service answered 200 with a body whose is_admin is true
Admitted ==
    /\ auth.response.kind = "status" /\ auth.response.status = 200
    /\ ~auth.response.body.garbled
    /\ "is_admin" \in DOMAIN auth.response.body.data
    /\ auth.response.body.data.is_admin = TRUE

\* C19: check_permissions returns a true value only when the identity service
\* answered 200 with a body whose is_admin is true, and False for every other
\* status and every exception; verify_token raises a 401 error when the
\* Authorization header is missing, does not start with "Bearer ", or
\* check_permissions has not returned a true value (it is not asked for an
\* empty token), and returns True otherwise; it ends in nothing else.
C19_AuthFailsClosed ==
    /\ auth.is_authorized = TRUE => auth.asked /\ Admitted
    /\ (auth.pc = "done" /\ auth.asked /\ ~Admitted) => auth.is_authorized = FALSE
    /\ auth.pc = "done" =>
          IF \/ Authorization = <<>>
             \/ Len(Authorization) < 7
             \/ \E k \in 1..7 : Authorization[k] # Bearer[k]
             \/ auth.is_authorized # TRUE
          THEN /\ auth.result.kind = "raise" /\ auth.result.status_code = 401
               /\ \/ auth.asked
                  \/ auth.response = NoResult
          ELSE auth.result = [kind |-> "return", value |-> TRUE]

\* a request refused for a 200 answer without is_admin, after one admitted
C19_Witness ==
    /\ auth.pc = "done" /\ auth.served = 2
    /\ auth.asked /\ auth.response.kind = "status" /\ auth.response.status = 200
    /\ ~auth.response.body.garbled
    /\ "is_admin" \notin DOMAIN auth.response.body.data
    /\ auth.result.kind = "raise"

----------------------------------------------------------------------------
(* C21 - C22 *)

\* the records of a rebuild whose photo was stored in the bucket
Uploaded(r) ==
    {x \in DOMAIN hist[r].built :
        hist[r].built[x].is_image /\ hist[r].built[x].message[1] = "http://"}

\* the photo dict record x of a rebuild was built from
PhotoOf(r, x) == SourceOf(r, x).attachments[hist[r].src[x].att].photo

\* C21 (as claimed): the photos one rebuild stored in the bucket are stored
\* under different keys, photos of one item and of items of one date included:
\* no two media records carry one object URL, and the object each record's URL
\* names holds the bytes of the record's own photo.
C21_DistinctUploads ==
    \A r \in Runs :
        Rebuilt(r) =>
            /\ \A x, y \in Uploaded(r) :
                  x # y => hist[r].built[x].message # hist[r].built[y].message
            /\ \A x \in Uploaded(r) :
                  \E o \in bucket :
                      /\ ObjectUrl(o.key) = hist[r].built[x].message
                      /\ o.body \in AmendedUrls(PhotoOf(r, x))

\* the rows of the conversations other than the call's
OtherRows(rows, cid) == SelectSeq(rows, LAMBDA m : m.chat_id # cid)

\* C22: from the call on, whatever its outcome, the records of every other
\* conversation and every conversation record are as they were when the call
\* was made; the rows the call adds belong to its conversation.
C22_Frame ==
    \A r \in Runs :
        hist[r].chat_id # 0 =>
            /\ chats = hist[r].chats
            /\ OtherRows(messages, hist[r].chat_id) = OtherRows(hist[r].pre, hist[r].chat_id)
            /\ \A m \in Range(messages) :
                  m \notin Range(hist[r].pre) => m.chat_id = hist[r].chat_id
            /\ \A a \in Range(sess[r].adds) : a.chat_id = hist[r].chat_id

\* a rebuild deleted the records of conversation 1 and stored others, a record
\* of conversation 2 being there
C22_Witness ==
    /\ Succeeded(1) /\ Rebuilt(1) /\ hist[1].chat_id = 1
    /\ Len(PreRows(1)) = MaxStale
    /\ \A m \in Range(PreRows(1)) : m \notin Range(messages)
    /\ Len(NowRows(1)) >= 2
    /\ OtherRows(messages, 1) # <<>>

====
